---- MODULE Spec2Model ----
(***************************************************************************)
(* BetafuncEvtVtxGenerator: beam-spot parameters, the cached inverse       *)
(* Lorentz boost, and the per-event vertex smearing.                       *)
(*                                                                         *)
(* Numbers.  The C++ doubles are modelled by exact rationals <<n, d>>      *)
(* (d > 0, lowest terms).  A result of the vertex smearing is a "double"   *)
(* record: a finite value a + b*sqrt(r), or one of the IEEE specials NaN,  *)
(* +Inf, -Inf that a division by zero or the root of a negative number     *)
(* produce.  Angles are integer multiples k of theta = atan(3/4), for      *)
(* which cos, sin and tan are rational, so the boost matrix and its        *)
(* inverse are computed exactly.                                           *)
(***************************************************************************)
EXTENDS Integers, Sequences, FiniteSets, TLC

\* ------------------------------------------------------------------ bounds
\* validity intervals the conditions source can report: 1..MaxIov
MaxIov == 2
\* the angle alpha ranges over 0..MaxAlpha (in units of atan(3/4))
MaxAlpha == 1

\* ------------------------------------------------------- CLHEP unit system
cm == 10
ns == 1
radian == 1
\* c_light = 299.792458 mm/ns
c_light == <<149896229, 500000>>

\* --------------------------------------------------------------- rationals
Abs(n) == IF n < 0 THEN -n ELSE n

RECURSIVE GCD(_, _)
GCD(a, b) == IF b = 0 THEN a ELSE GCD(b, a % b)

Norm(n, d) ==
  LET g == GCD(Abs(n), Abs(d))
      s == IF d < 0 THEN -1 ELSE 1
  IN  <<(s * n) \div g, (s * d) \div g>>

Rat(n) == <<n, 1>>
Zero == Rat(0)
One == Rat(1)

RMul(p, q) ==
  LET g1 == GCD(Abs(p[1]), q[2])
      g2 == GCD(Abs(q[1]), p[2])
  IN  <<(p[1] \div g1) * (q[1] \div g2), (p[2] \div g2) * (q[2] \div g1)>>

RAdd(p, q) ==
  LET g == GCD(p[2], q[2])
  IN  Norm(p[1] * (q[2] \div g) + q[1] * (p[2] \div g), (p[2] \div g) * q[2])

RNeg(p) == <<-p[1], p[2]>>
RSub(p, q) == RAdd(p, RNeg(q))
\* q # 0
RDiv(p, q) == RMul(p, Norm(q[2], q[1]))
RSign(p) == IF p[1] > 0 THEN 1 ELSE IF p[1] < 0 THEN -1 ELSE 0
RLess(p, q) == p[1] * q[2] < q[1] * p[2]
RLeq(p, q) == p[1] * q[2] <= q[1] * p[2]

\* ------------------------------------------------- cos, sin, tan of k*theta
RECURSIVE CosSin(_)
CosSin(k) ==
  IF k = 0 THEN <<One, Zero>>
  ELSE IF k < 0 THEN LET cs == CosSin(-k) IN <<cs[1], RNeg(cs[2])>>
  ELSE LET cs == CosSin(k - 1)
       IN  <<RSub(RMul(cs[1], <<4, 5>>), RMul(cs[2], <<3, 5>>)),
             RAdd(RMul(cs[2], <<4, 5>>), RMul(cs[1], <<3, 5>>))>>

cos(k) == CosSin(k)[1]
sin(k) == CosSin(k)[2]
tan(k) == RDiv(sin(k), cos(k))

\* ------------------------------------------------------------ 4x4 matrices
\* a matrix is a tuple of four rows, a row a tuple of four rationals
Idx == 1..4
Row(F(_)) == <<F(1), F(2), F(3), F(4)>>
Matrix(F(_, _)) ==
  <<Row(LAMBDA j : F(1, j)), Row(LAMBDA j : F(2, j)),
    Row(LAMBDA j : F(3, j)), Row(LAMBDA j : F(4, j))>>
ZeroMatrix == Matrix(LAMBDA i, j : Zero)
UnitMatrix == Matrix(LAMBDA i, j : IF i = j THEN One ELSE Zero)

\* Gauss-Jordan elimination on the pair (m, inv), column c onwards.
PivotRow(m, c) == CHOOSE i \in c..4 : m[i][c] # Zero /\ \A k \in c..(i - 1) : m[k][c] = Zero

SwapRows(m, i, k) == [m EXCEPT ![i] = m[k], ![k] = m[i]]

ScaleRow(row, f) == Row(LAMBDA j : RMul(row[j], f))

\* row - f * prow
SubRow(row, f, prow) == Row(LAMBDA j : RSub(row[j], RMul(f, prow[j])))

RECURSIVE GaussJordan(_, _, _)
GaussJordan(m, inv, c) ==
  IF c > 4 THEN inv
  ELSE LET p  == PivotRow(m, c)
           m1 == SwapRows(m, c, p)
           i1 == SwapRows(inv, c, p)
           f  == RDiv(One, m1[c][c])
           m2 == [m1 EXCEPT ![c] = ScaleRow(m1[c], f)]
           i2 == [i1 EXCEPT ![c] = ScaleRow(i1[c], f)]
           m3 == Row(LAMBDA i : IF i = c THEN m2[c] ELSE SubRow(m2[i], m2[i][c], m2[c]))
           i3 == Row(LAMBDA i : IF i = c THEN i2[c] ELSE SubRow(i2[i], m2[i][c], i2[c]))
       IN  GaussJordan(m3, i3, c + 1)

Invert(m) == GaussJordan(m, UnitMatrix, 1)

MatMul(a, b) ==
  Matrix(LAMBDA i, j :
     RAdd(RAdd(RMul(a[i][1], b[1][j]), RMul(a[i][2], b[2][j])),
          RAdd(RMul(a[i][3], b[3][j]), RMul(a[i][4], b[4][j]))))

\* ------------------------------------------ doubles of the vertex smearing
\* [k |-> "fin", a, b, r] is a + b*sqrt(r); b = r = 0 for a plain rational.
Fin(q) == [k |-> "fin", a |-> q, b |-> Zero, r |-> Zero]
NaN == [k |-> "nan", a |-> Zero, b |-> Zero, r |-> Zero]
PInf == [k |-> "pinf", a |-> Zero, b |-> Zero, r |-> Zero]
NInf == [k |-> "ninf", a |-> Zero, b |-> Zero, r |-> Zero]
Surd(a, b, r) == IF b = Zero \/ r = Zero THEN Fin(a) ELSE [k |-> "fin", a |-> a, b |-> b, r |-> r]

IsRational(x) == x.k = "fin" /\ x.b = Zero
IsRoot(x) == x.k = "fin" /\ x.a = Zero /\ x.b # Zero
IsInf(x) == x.k \in {"pinf", "ninf"}
\* sign of a rational or of an infinity
DSign(x) == IF x.k = "pinf" THEN 1 ELSE IF x.k = "ninf" THEN -1 ELSE RSign(x.a)
Signed(s) == IF s > 0 THEN PInf ELSE NInf

DNeg(x) ==
  CASE x.k = "fin" -> Surd(RNeg(x.a), RNeg(x.b), x.r)
    [] x.k = "pinf" -> NInf
    [] x.k = "ninf" -> PInf
    [] x.k = "nan" -> NaN

DAdd(x, y) ==
  CASE x.k = "nan" \/ y.k = "nan" -> NaN
    [] IsInf(x) /\ IsInf(y) -> IF x.k = y.k THEN x ELSE NaN
    [] IsInf(x) /\ y.k = "fin" -> x
    [] x.k = "fin" /\ IsInf(y) -> y
    [] x.k = "fin" /\ y.k = "fin" /\ y.b = Zero -> Surd(RAdd(x.a, y.a), x.b, x.r)
    [] x.k = "fin" /\ y.k = "fin" /\ x.b = Zero /\ y.b # Zero -> Surd(RAdd(x.a, y.a), y.b, y.r)
    [] x.k = "fin" /\ y.k = "fin" /\ x.b # Zero /\ y.b # Zero /\ x.r = y.r ->
         Surd(RAdd(x.a, y.a), RAdd(x.b, y.b), x.r)

DSub(x, y) == DAdd(x, DNeg(y))

\* one factor at least is a rational or an infinity
DMul(x, y) ==
  CASE x.k = "nan" \/ y.k = "nan" -> NaN
    [] IsInf(x) /\ IsInf(y) -> Signed(DSign(x) * DSign(y))
    [] IsInf(x) /\ IsRational(y) -> IF y.a = Zero THEN NaN ELSE Signed(DSign(x) * DSign(y))
    [] IsRational(x) /\ IsInf(y) -> IF x.a = Zero THEN NaN ELSE Signed(DSign(x) * DSign(y))
    [] IsInf(x) /\ IsRoot(y) -> Signed(DSign(x) * RSign(y.b))
    [] IsRoot(x) /\ IsInf(y) -> Signed(RSign(x.b) * DSign(y))
    [] IsRational(x) /\ y.k = "fin" -> Surd(RMul(x.a, y.a), RMul(x.a, y.b), y.r)
    [] x.k = "fin" /\ ~IsRational(x) /\ IsRational(y) -> Surd(RMul(x.a, y.a), RMul(x.b, y.a), x.r)

\* rational / rational (IEEE on a zero divisor), root / root, special / finite
DDiv(x, y) ==
  CASE x.k = "nan" \/ y.k = "nan" -> NaN
    [] IsRational(x) /\ IsRational(y) /\ y.a = Zero ->
         IF x.a = Zero THEN NaN ELSE Signed(RSign(x.a))
    [] IsRational(x) /\ IsRational(y) /\ y.a # Zero -> Fin(RDiv(x.a, y.a))
    [] IsRational(x) /\ x.a = Zero /\ IsRoot(y) -> Fin(Zero)
    [] IsRoot(x) /\ IsRoot(y) -> Surd(Zero, RDiv(x.b, y.b), RDiv(x.r, y.r))
    [] IsInf(x) /\ IsRational(y) /\ y.a # Zero -> Signed(DSign(x) * DSign(y))
    [] IsInf(x) /\ IsRoot(y) -> Signed(DSign(x) * RSign(y.b))

\* of a rational or a special
sqrt(x) ==
  CASE x.k = "nan" -> NaN
    [] x.k = "ninf" -> NaN
    [] x.k = "pinf" -> PInf
    [] IsRational(x) -> IF RLess(x.a, Zero) THEN NaN ELSE Surd(Zero, One, x.a)

\* -------------------------------------------------------------- input sets
\* (X0, Y0, Z0 in cm, TimeOffset in ns, Emittance in cm): two beam spots that
\* differ in every field
BeamVals == {<<0, 0, 0, 0, 1>>, <<1, 2, 3, 1, 2>>}
SigmaZVals == {-1, 0, 1}
BetaStarVals == {-1, 0, 1}
AlphaVals == 0..MaxAlpha
PhiVals == {0, 1}
\* arguments of sigmaZ(s)
SetterVals == {-1, 0, 1}
\* unit-normal variates an engine yields
DrawVals == {-1, 0, 1}
IovVals == 1..MaxIov

\* edm::ParameterSet
ParameterSets ==
  { [readDB |-> db, X0 |-> bv[1], Y0 |-> bv[2], Z0 |-> bv[3], SigmaZ |-> sz,
     BetaStar |-> bs, Emittance |-> bv[5], TimeOffset |-> bv[4], Alpha |-> al, Phi |-> ph] :
    db \in BOOLEAN, bv \in BeamVals, sz \in SigmaZVals, bs \in BetaStarVals,
    al \in AlphaVals, ph \in PhiVals }

\* SimBeamSpotObjects; a Gaussian record carries no beta-function optics
BeamSpotRecords ==
  { [x |-> bv[1], y |-> bv[2], z |-> bv[3], sigmaZ |-> sz, betaStar |-> bs,
     emittance |-> bv[5], timeOffset |-> bv[4], alpha |-> al, phi |-> ph,
     isGaussian |-> FALSE] :
    bv \in BeamVals, sz \in SigmaZVals, bs \in BetaStarVals, al \in AlphaVals, ph \in PhiVals }
  \cup
  { [x |-> bv[1], y |-> bv[2], z |-> bv[3], sigmaZ |-> sz, betaStar |-> 0,
     emittance |-> 0, timeOffset |-> bv[4], alpha |-> 0, phi |-> 0, isGaussian |-> TRUE] :
    bv \in BeamVals, sz \in SigmaZVals }

NoRecord ==
  [x |-> 0, y |-> 0, z |-> 0, sigmaZ |-> 0, betaStar |-> 0, emittance |-> 0,
   timeOffset |-> 0, alpha |-> 0, phi |-> 0, isGaussian |-> FALSE]

\* ------------------------------------------------------------------- state
VARIABLES
  pc,                 \* "new", "ready" (constructed), "failed" (the constructor threw)
  readDB_,
  fX0, fY0, fZ0,
  fSigmaZ,
  fbetastar, femittance,
  fTimeOffset,
  boost_,
  parameterWatcher_,  \* the cache identifier the watcher saw last, 0 before any check
  call,               \* the call in progress: what was invoked and what it gave
  accepted            \* the angles of the parameter set accepted last

params == <<fX0, fY0, fZ0, fSigmaZ, fbetastar, femittance, fTimeOffset>>
vars == <<pc, readDB_, fX0, fY0, fZ0, fSigmaZ, fbetastar, femittance, fTimeOffset,
          boost_, parameterWatcher_, call, accepted>>

NoVertex == [X |-> NaN, Y |-> NaN, Z |-> NaN, T |-> NaN]
NoCall ==
  [op |-> "none", exc |-> "none", iov |-> 0, changed |-> FALSE, gaussian |-> FALSE,
   read |-> FALSE, rec |-> NoRecord,
   arg |-> Zero, draws |-> <<>>, served |-> 0, shoots |-> <<>>, ret |-> NoVertex,
   boost |-> ZeroMatrix]
NoAngles == [set |-> FALSE, alpha |-> 0, phi |-> 0]
Angles(alpha, phi) == [set |-> TRUE, alpha |-> alpha, phi |-> phi]

Fields(x, y, z, s, b, e, t) ==
  [fX0 |-> x, fY0 |-> y, fZ0 |-> z, fSigmaZ |-> s, fbetastar |-> b, femittance |-> e,
   fTimeOffset |-> t]
CurrentFields == Fields(fX0, fY0, fZ0, fSigmaZ, fbetastar, femittance, fTimeOffset)

\* values the members hold when the constructor did not assign them
Indeterminate ==
  { Fields(Rat(bv[1] * cm), Rat(bv[2] * cm), Rat(bv[3] * cm), Rat(sz * cm), Rat(bs * cm),
           Rat(bv[5] * cm), RMul(Rat(bv[4] * ns), c_light)) :
    bv \in BeamVals, sz \in SigmaZVals, bs \in BetaStarVals }

Assign(f) ==
  /\ fX0' = f.fX0
  /\ fY0' = f.fY0
  /\ fZ0' = f.fZ0
  /\ fSigmaZ' = f.fSigmaZ
  /\ fbetastar' = f.fbetastar
  /\ femittance' = f.femittance
  /\ fTimeOffset' = f.fTimeOffset

Init ==
  /\ pc = "new"
  /\ readDB_ = FALSE
  /\ fX0 = Zero /\ fY0 = Zero /\ fZ0 = Zero
  /\ fSigmaZ = Zero
  /\ fbetastar = Zero /\ femittance = Zero
  /\ fTimeOffset = Zero
  /\ boost_ = ZeroMatrix
  /\ parameterWatcher_ = 0
  /\ call = NoCall
  /\ accepted = NoAngles

\* ---------------------------------------------------------------- setBoost
\* tmpboost with cos(phi) for sin(phi) in entry (0, 1)
tmpboostCosEntry(alpha, phi) ==
  LET row1 == <<RDiv(One, cos(phi)), RNeg(RMul(cos(alpha), cos(phi))),
                RNeg(RMul(tan(phi), sin(phi))), RNeg(RMul(sin(alpha), sin(phi)))>>
      row2 == <<RNeg(RMul(cos(alpha), tan(phi))), One, RMul(cos(alpha), tan(phi)), Zero>>
      row3 == <<Zero, RNeg(RMul(cos(alpha), sin(phi))), cos(phi),
                RNeg(RMul(sin(alpha), sin(phi)))>>
      row4 == <<RNeg(RMul(sin(alpha), tan(phi))), Zero, RMul(sin(alpha), tan(phi)), One>>
  IN  <<row1, row2, row3, row4>>

\* the matrix before inversion; row i, column j here is tmpboost(i-1, j-1)
tmpboost(alpha, phi) ==
  LET row1 == <<RDiv(One, cos(phi)), RNeg(RMul(cos(alpha), sin(phi))),
                RNeg(RMul(tan(phi), sin(phi))), RNeg(RMul(sin(alpha), sin(phi)))>>
      row2 == <<RNeg(RMul(cos(alpha), tan(phi))), One, RMul(cos(alpha), tan(phi)), Zero>>
      row3 == <<Zero, RNeg(RMul(cos(alpha), sin(phi))), cos(phi),
                RNeg(RMul(sin(alpha), sin(phi)))>>
      row4 == <<RNeg(RMul(sin(alpha), tan(phi))), Zero, RMul(sin(alpha), tan(phi)), One>>
  IN  <<row1, row2, row3, row4>>

\* tmpboost.Invert(), computed once for each pair of angles
Inverted == {<<alpha, phi, Invert(tmpboost(alpha, phi))>> : alpha \in AlphaVals, phi \in PhiVals}

\* setBoost without tmpboost.Invert()
setBoostNoInvert(alpha, phi) == tmpboost(alpha, phi)

\* the new value of boost_
setBoost(alpha, phi) == (CHOOSE e \in Inverted : e[1] = alpha /\ e[2] = phi)[3]

\* ------------------------------------------------------------- constructor
ctorFields(p) ==
  Fields(RMul(Rat(p.X0), Rat(cm)), RMul(Rat(p.Y0), Rat(cm)), RMul(Rat(p.Z0), Rat(cm)),
         RMul(Rat(p.SigmaZ), Rat(cm)), RMul(Rat(p.BetaStar), Rat(cm)),
         RMul(Rat(p.Emittance), Rat(cm)),
         RMul(RMul(Rat(p.TimeOffset), Rat(ns)), c_light))

\* the check with < for <=
ctorThrowsNegative(sigmaZ) == RLess(sigmaZ, Zero)

\* if (fSigmaZ <= 0) throw
ctorThrows(sigmaZ) == RLeq(sigmaZ, Zero)

\* u: what the members hold when readDB is set and nothing is assigned to them
construct(p, u) ==
  /\ readDB_' = p.readDB
  /\ IF ~p.readDB
       THEN /\ \E f \in {ctorFields(p)} : Assign(f)
            /\ boost_' = setBoost(p.Alpha * radian, p.Phi * radian)
            /\ IF ctorThrows(fSigmaZ')
                 THEN /\ pc' = "failed"
                      /\ accepted' = NoAngles
                      /\ call' = [NoCall EXCEPT !.op = "ctor", !.exc = "Configuration",
                                                !.arg = Rat(p.SigmaZ)]
                 ELSE /\ pc' = "ready"
                      /\ accepted' = Angles(p.Alpha * radian, p.Phi * radian)
                      /\ call' = [NoCall EXCEPT !.op = "ctor", !.arg = Rat(p.SigmaZ)]
       ELSE /\ Assign(u)
            /\ boost_' = ZeroMatrix
            /\ pc' = "ready"
            /\ accepted' = NoAngles
            /\ call' = [NoCall EXCEPT !.op = "ctor", !.arg = Rat(p.SigmaZ)]
  /\ UNCHANGED parameterWatcher_

Constructor ==
  /\ pc = "new"
  /\ \E p \in ParameterSets :
       \E u \in (IF p.readDB THEN Indeterminate ELSE {CurrentFields}) : construct(p, u)

\* ------------------------------------------------------------------ update
\* edm::ESWatcher::check: whether the record's cache identifier differs from
\* the one seen last, which it then replaces
check(watcher, iov) == [result |-> watcher # iov, cacheId |-> iov]

\* the condition without readDB_
updateReadsUnguarded(readDB, watcher, iov) == check(watcher, iov).result

\* readDB_ && parameterWatcher_.check(iEventSetup)
updateReads(readDB, watcher, iov) == readDB /\ check(watcher, iov).result

\* the watcher is asked only when readDB_ holds
watcherAfter(readDB, watcher, iov) == IF readDB THEN check(watcher, iov).cacheId ELSE watcher

\* fX0 assigned before the record's profile is looked at
updateFieldsEarly(cur, rec) ==
  IF ~rec.isGaussian
    THEN Fields(RMul(Rat(rec.x), Rat(cm)), RMul(Rat(rec.y), Rat(cm)), RMul(Rat(rec.z), Rat(cm)),
                RMul(Rat(rec.sigmaZ), Rat(cm)), RMul(Rat(rec.betaStar), Rat(cm)),
                RMul(Rat(rec.emittance), Rat(cm)),
                RMul(RMul(Rat(rec.timeOffset), Rat(ns)), c_light))
    ELSE [cur EXCEPT !.fX0 = RMul(Rat(rec.x), Rat(cm))]

\* the members after the record was read
updateFields(cur, rec) ==
  IF ~rec.isGaussian
    THEN Fields(RMul(Rat(rec.x), Rat(cm)), RMul(Rat(rec.y), Rat(cm)), RMul(Rat(rec.z), Rat(cm)),
                RMul(Rat(rec.sigmaZ), Rat(cm)), RMul(Rat(rec.betaStar), Rat(cm)),
                RMul(Rat(rec.emittance), Rat(cm)),
                RMul(RMul(Rat(rec.timeOffset), Rat(ns)), c_light))
    ELSE cur

updateBoost(cur, rec) ==
  IF ~rec.isGaussian THEN setBoost(rec.alpha * radian, rec.phi * radian) ELSE cur

updateThrows(rec) == rec.isGaussian

\* what the caller passed: the record's cache identifier, what the watcher says
\* of it, and the record's profile flag
updateCall(iov, rec) ==
  [NoCall EXCEPT !.op = "update", !.iov = iov, !.gaussian = rec.isGaussian,
                 !.changed = check(parameterWatcher_, iov).result]

update(iov, rec) ==
  /\ parameterWatcher_' = watcherAfter(readDB_, parameterWatcher_, iov)
  /\ IF updateReads(readDB_, parameterWatcher_, iov)
       THEN /\ \E f \in {updateFields(CurrentFields, rec)} : Assign(f)
            /\ boost_' = updateBoost(boost_, rec)
            /\ IF updateThrows(rec)
                 THEN /\ accepted' = accepted
                      /\ call' = [updateCall(iov, rec) EXCEPT !.read = TRUE,
                                                              !.exc = "Configuration"]
                 ELSE /\ accepted' = Angles(rec.alpha * radian, rec.phi * radian)
                      /\ call' = [updateCall(iov, rec) EXCEPT !.read = TRUE, !.rec = rec]
       ELSE /\ UNCHANGED <<params, boost_, accepted>>
            /\ call' = updateCall(iov, rec)

BeginLuminosityBlock ==
  /\ pc = "ready"
  /\ call.op = "none"
  /\ \E iov \in IovVals, rec \in BeamSpotRecords : update(iov, rec)
  /\ UNCHANGED <<pc, readDB_>>

\* ------------------------------------------------------------- vertexShift
\* CLHEP::RandGaussQ::shoot(engine, mean, stdDev): the engine's next variate,
\* scaled and shifted; e.shot logs the calls
shoot(e, mean, stdDev) ==
  LET val == DAdd(DMul(Fin(Rat(Head(e.next))), stdDev), mean)
  IN  [val |-> val,
       eng |-> [n |-> e.n + 1, next |-> Tail(e.next),
                shot |-> Append(e.shot, [sd |-> stdDev, val |-> val])]]

BetaFunction(z, z0) ==
  sqrt(DMul(Fin(femittance),
            DAdd(Fin(fbetastar), DDiv(DMul(DSub(z, z0), DSub(z, z0)), Fin(fbetastar)))))

\* vertexShift with the time variate drawn second
vertexShiftTimeSecond(e) ==
  LET s1 == shoot(e, Fin(Zero), Fin(fSigmaZ))
      Z == DAdd(s1.val, Fin(fZ0))
      s4 == shoot(s1.eng, Fin(Zero), Fin(fSigmaZ))
      T == DAdd(s4.val, Fin(fTimeOffset))
      tmp_sigx == DDiv(BetaFunction(Z, Fin(fZ0)), sqrt(Fin(Rat(2))))
      s2 == shoot(s4.eng, Fin(Zero), tmp_sigx)
      X == DAdd(s2.val, Fin(fX0))
      tmp_sigy == DDiv(BetaFunction(Z, Fin(fZ0)), sqrt(Fin(Rat(2))))
      s3 == shoot(s2.eng, Fin(Zero), tmp_sigy)
      Y == DAdd(s3.val, Fin(fY0))
  IN  [vertex |-> [X |-> X, Y |-> Y, Z |-> Z, T |-> T], eng |-> s3.eng]

vertexShift(e) ==
  LET s1 == shoot(e, Fin(Zero), Fin(fSigmaZ))
      Z == DAdd(s1.val, Fin(fZ0))
      tmp_sigx == DDiv(BetaFunction(Z, Fin(fZ0)), sqrt(Fin(Rat(2))))
      s2 == shoot(s1.eng, Fin(Zero), tmp_sigx)
      X == DAdd(s2.val, Fin(fX0))
      tmp_sigy == DDiv(BetaFunction(Z, Fin(fZ0)), sqrt(Fin(Rat(2))))
      s3 == shoot(s2.eng, Fin(Zero), tmp_sigy)
      Y == DAdd(s3.val, Fin(fY0))
      s4 == shoot(s3.eng, Fin(Zero), Fin(fSigmaZ))
      T == DAdd(s4.val, Fin(fTimeOffset))
  IN  [vertex |-> [X |-> X, Y |-> Y, Z |-> Z, T |-> T], eng |-> s4.eng]

DrawSeqs == {<<d1, d2, d3, d4>> : d1 \in DrawVals, d2 \in DrawVals, d3 \in DrawVals, d4 \in DrawVals}

\* d: the variates the caller's engine serves next
VertexShift ==
  /\ pc = "ready"
  /\ call.op = "none"
  /\ \E d \in DrawSeqs :
       \E r \in {vertexShift([n |-> 0, next |-> d, shot |-> <<>>])} :
           call' = [NoCall EXCEPT !.op = "vertexShift", !.draws = d, !.served = r.eng.n,
                                 !.shoots = r.eng.shot, !.ret = r.vertex]
  /\ UNCHANGED <<pc, readDB_, params, boost_, parameterWatcher_, accepted>>

\* ------------------------------------------------------------------ sigmaZ
\* the check with > for >=
sigmaZAcceptsPositive(s) == RLess(Zero, s)

\* if (s >= 0)
sigmaZAccepts(s) == RLeq(Zero, s)

sigmaZ(s) ==
  IF sigmaZAccepts(s)
    THEN /\ fSigmaZ' = s
         /\ call' = [NoCall EXCEPT !.op = "sigmaZ", !.arg = s]
    ELSE /\ fSigmaZ' = fSigmaZ
         /\ call' = [NoCall EXCEPT !.op = "sigmaZ", !.arg = s, !.exc = "LogicError"]

SigmaZ ==
  /\ pc = "ready"
  /\ call.op = "none"
  /\ \E s \in SetterVals : sigmaZ(Rat(s))
  /\ UNCHANGED <<pc, readDB_, fX0, fY0, fZ0, fbetastar, femittance, fTimeOffset, boost_,
                 parameterWatcher_, accepted>>

\* ------------------------------------------------------ GetInvLorentzBoost
GetInvLorentzBoost ==
  /\ pc = "ready"
  /\ call.op = "none"
  /\ call' = [NoCall EXCEPT !.op = "GetInvLorentzBoost", !.boost = boost_]
  /\ UNCHANGED <<pc, readDB_, params, boost_, parameterWatcher_, accepted>>

\* the caller takes the result, or catches the exception, and goes on
Return ==
  /\ pc = "ready"
  /\ call.op # "none"
  /\ call' = NoCall
  /\ UNCHANGED <<pc, readDB_, params, boost_, parameterWatcher_, accepted>>

Next ==
  \/ Constructor
  \/ BeginLuminosityBlock
  \/ VertexShift
  \/ SigmaZ
  \/ GetInvLorentzBoost
  \/ Return

Spec == Init /\ [][Next]_vars

\* ================================================================== claims
others == <<fX0, fY0, fZ0, fbetastar, femittance, fTimeOffset>>

\* C1: in dynamic-source mode, an update on a validity-interval change whose
\* record is Gaussian throws the Configuration exception and leaves the seven
\* parameters and the boost matrix as they were.
C1_GaussianRefreshRejected ==
  [][(call'.op = "update" /\ readDB_ /\ call'.changed /\ call'.gaussian)
       => (call'.exc = "Configuration" /\ UNCHANGED <<params, boost_>>)]_vars

\* a Gaussian record was rejected by a model that had accepted parameters
C1_Witness ==
  /\ call.op = "update" /\ readDB_ /\ call.changed /\ call.gaussian
  /\ call.exc = "Configuration"
  /\ accepted.set

\* C2: sigmaZ is strictly positive in every state of a constructed model
\* whose parameters were configured or refreshed.
C2_SigmaZPositive == (pc = "ready" /\ accepted.set) => RLess(Zero, fSigmaZ)

\* the matrix M of the boost builder's contract, entry by entry
ContractM(alpha, phi) ==
  << <<RDiv(One, cos(phi)), RNeg(RMul(cos(alpha), sin(phi))),
       RNeg(RMul(tan(phi), sin(phi))), RNeg(RMul(sin(alpha), sin(phi)))>>,
     <<RNeg(RMul(cos(alpha), tan(phi))), One, RMul(cos(alpha), tan(phi)), Zero>>,
     <<Zero, RNeg(RMul(cos(alpha), sin(phi))), cos(phi), RNeg(RMul(sin(alpha), sin(phi)))>>,
     <<RNeg(RMul(sin(alpha), tan(phi))), Zero, RMul(sin(alpha), tan(phi)), One>> >>

\* for each pair of angles the matrix that, multiplied with M from either
\* side, gives the identity
ContractBoosts ==
  { e \in {<<alpha, phi, Invert(ContractM(alpha, phi))>> : alpha \in AlphaVals, phi \in PhiVals} :
      /\ MatMul(e[3], ContractM(e[1], e[2])) = UnitMatrix
      /\ MatMul(ContractM(e[1], e[2]), e[3]) = UnitMatrix }

BoostIsInverseOfM ==
  accepted.set => <<accepted.alpha, accepted.phi, boost_>> \in ContractBoosts

RefreshReplacesAll ==
  (call'.op = "update" /\ call'.read /\ call'.exc = "none") =>
    /\ fX0' = RMul(Rat(call'.rec.x), Rat(cm))
    /\ fY0' = RMul(Rat(call'.rec.y), Rat(cm))
    /\ fZ0' = RMul(Rat(call'.rec.z), Rat(cm))
    /\ fSigmaZ' = RMul(Rat(call'.rec.sigmaZ), Rat(cm))
    /\ fbetastar' = RMul(Rat(call'.rec.betaStar), Rat(cm))
    /\ femittance' = RMul(Rat(call'.rec.emittance), Rat(cm))
    /\ fTimeOffset' = RMul(Rat(call'.rec.timeOffset * ns), c_light)
    /\ accepted' = Angles(call'.rec.alpha, call'.rec.phi)

BoostChangesOnlyOnAccept ==
  (boost_' # boost_ \/ accepted' # accepted) =>
    \/ call'.op = "ctor"
    \/ call'.op = "update" /\ call'.read /\ call'.exc = "none"

\* C3: once parameters were accepted, the cached boost is the inverse of M at
\* the angles accepted last; a successful refresh replaces all seven
\* parameters and the angles in one step; nothing but the constructor and a
\* successful refresh changes the boost.
C3_BoostFollowsAcceptedAngles ==
  /\ []BoostIsInverseOfM
  /\ [][RefreshReplacesAll /\ BoostChangesOnlyOnAccept]_vars

\* a refresh was accepted with a crossing angle, over earlier parameters
C3_Witness ==
  /\ call.op = "update" /\ call.read /\ call.exc = "none"
  /\ accepted.phi = 1 /\ accepted.alpha = 1
  /\ boost_ # UnitMatrix

\* C4: an update reads the record exactly when readDB_ holds and the watcher
\* reports a change; any other update throws nothing and leaves parameters
\* and boost alone, whatever the record holds.
C4_ReadsOnlyOnChange ==
  [][call'.op = "update" =>
       IF readDB_ /\ call'.changed
         THEN call'.read
         ELSE /\ ~call'.read
              /\ call'.exc = "none"
              /\ UNCHANGED <<params, boost_, accepted>>]_vars

\* in dynamic-source mode a Gaussian record went unread, the interval being
\* the one already seen
C4_Witness ==
  /\ call.op = "update" /\ readDB_ /\ accepted.set
  /\ ~call.changed /\ call.gaussian
  /\ ~call.read /\ call.exc = "none"

\* C5: sigmaZ(s) throws LogicError exactly when s < 0 and then keeps fSigmaZ;
\* otherwise fSigmaZ becomes s; the other parameters and the boost stay.
C5_SetSigmaZ ==
  [][call'.op = "sigmaZ" =>
       /\ (call'.exc = "LogicError") <=> RLess(call'.arg, Zero)
       /\ call'.exc \in {"none", "LogicError"}
       /\ fSigmaZ' = IF RLess(call'.arg, Zero) THEN fSigmaZ ELSE call'.arg
       /\ UNCHANGED <<others, boost_>>]_vars

\* a negative width was refused by a configured model
C5_Witness ==
  /\ call.op = "sigmaZ" /\ call.exc = "LogicError"
  /\ RLess(call.arg, Zero)
  /\ accepted.set /\ RLess(Zero, fSigmaZ)

\* C6: the constructor throws the Configuration exception exactly when readDB
\* is false and SigmaZ <= 0, and then there is no model; with readDB true it
\* never throws.
C6_ConstructorRejectsSigmaZ ==
  call.op = "ctor" =>
    /\ (call.exc = "Configuration") <=> (~readDB_ /\ RLeq(call.arg, Zero))
    /\ call.exc \in {"none", "Configuration"}
    /\ (pc = "failed") <=> (call.exc = "Configuration")
    /\ (pc = "ready") <=> (call.exc = "none")

\* SigmaZ = 0 was refused
C6_Witness ==
  /\ call.op = "ctor" /\ ~readDB_ /\ call.arg = Zero
  /\ call.exc = "Configuration" /\ pc = "failed"

\* C7: a vertexShift takes exactly four variates: the first for Z with width
\* fSigmaZ, the second and third for X and Y with the beam width at that Z,
\* the fourth for T with width fSigmaZ; parameters and boost stay.
C7_FourDrawsInOrder ==
  [][call'.op = "vertexShift" =>
       LET shot == call'.shoots
           v == call'.ret
       IN  /\ call'.served = 4
           /\ Len(shot) = 4
           /\ \A i \in 1..4 : shot[i].val = DMul(Fin(Rat(call'.draws[i])), shot[i].sd)
           /\ shot[1].sd = Fin(fSigmaZ) /\ v.Z = DAdd(shot[1].val, Fin(fZ0))
           /\ shot[2].sd = DDiv(BetaFunction(v.Z, Fin(fZ0)), sqrt(Fin(Rat(2))))
           /\ v.X = DAdd(shot[2].val, Fin(fX0))
           /\ shot[3].sd = shot[2].sd /\ v.Y = DAdd(shot[3].val, Fin(fY0))
           /\ shot[4].sd = Fin(fSigmaZ) /\ v.T = DAdd(shot[4].val, Fin(fTimeOffset))
           /\ UNCHANGED <<params, boost_, accepted, parameterWatcher_>>]_vars

\* a sample with four different uses of the variates
C7_Witness ==
  /\ call.op = "vertexShift" /\ accepted.set
  /\ call.draws = <<1, -1, 1, -1>>
  /\ call.ret.X.k = "fin" /\ call.ret.X.b # Zero
  /\ call.ret.X # call.ret.Y
  /\ call.ret.Z # call.ret.T

\* C8: with variates (d1, d2, d3, d4) a sample is Z = z0 + d1*sigmaZ,
\* X = x0 + d2*w, Y = y0 + d3*w, T = timeOffset + d4*sigmaZ with
\* w^2 = emittance*(betaStar + (Z - z0)^2/betaStar)/2, and so exactly
\* (x0, y0, z0, timeOffset) for variates (0, 0, 0, 0).
C8_SampleClosedForm ==
  (call.op = "vertexShift" /\ accepted.set) =>
    LET d == call.draws
        v == call.ret
        dz == RMul(Rat(d[1]), fSigmaZ)
    IN  /\ v.Z = Fin(RAdd(fZ0, dz))
        /\ v.T = Fin(RAdd(fTimeOffset, RMul(Rat(d[4]), fSigmaZ)))
        /\ fbetastar # Zero
        /\ LET w2 == RDiv(RMul(femittance, RAdd(fbetastar, RDiv(RMul(dz, dz), fbetastar))),
                          Rat(2))
           IN  /\ RLeq(Zero, w2)
               /\ v.X = Surd(fX0, Rat(d[2]), w2)
               /\ v.Y = Surd(fY0, Rat(d[3]), w2)
        /\ d = <<0, 0, 0, 0>> =>
             v = [X |-> Fin(fX0), Y |-> Fin(fY0), Z |-> Fin(fZ0), T |-> Fin(fTimeOffset)]

\* C9: at alpha = 0, phi = 0 the matrix before inversion is the identity, and
\* so is the cached boost a caller gets.
C9_IdentityAtZeroAngles ==
  (call.op = "GetInvLorentzBoost" /\ accepted = Angles(0, 0)) =>
    /\ tmpboost(0, 0) = UnitMatrix
    /\ boost_ = UnitMatrix
    /\ call.boost = UnitMatrix

\* a caller got the boost of a model configured without crossing angle
C9_Witness ==
  /\ call.op = "GetInvLorentzBoost"
  /\ accepted = Angles(0, 0)
  /\ call.boost = UnitMatrix

\* C10: whenever a configured or refreshed model can be sampled, betaStar is
\* positive, and a sample's beam width is a finite number.
C10_BetaStarPositive ==
  /\ (pc = "ready" /\ accepted.set) => RLess(Zero, fbetastar)
  /\ (call.op = "vertexShift" /\ accepted.set) => call.shoots[2].sd.k = "fin"
====
